---- MODULE Spec2Model ----
(***************************************************************************)
(* Model of the margined perpetuals contracts:                             *)
(*   - margined_vamm   : constant-product pricing curve (two reserves)     *)
(*   - margined_engine : position ledger, the single tmp_swap slot, and    *)
(*                       the request / sub-message / reply protocol        *)
(* One market (vAMM) is modelled; traders are drawn from Traders.          *)
(* Option<T> values are sequences: None is <<>>, Some(x) is <<x>>.         *)
(* StdResult<Uint128> values use the same encoding: Err is <<>>.           *)
(* Position fields premium_fraction, liquidity_history_index and timestamp *)
(* are never read by any handler and are left out of the record.           *)
(* Uint128 overflow of checked_add / checked_mul is out of reach of the    *)
(* bounded values; checked_sub underflow and checked_div by zero are       *)
(* modelled as errors.                                                     *)
(***************************************************************************)
EXTENDS Integers, Sequences, FiniteSets, TLC

VARIABLES
    decimals,               \* Config.decimals (10^k), same for both contracts
    quote_asset_reserve,    \* vamm State.quote_asset_reserve
    base_asset_reserve,     \* vamm State.base_asset_reserve
    positions,              \* engine position bucket: trader -> Option<Position>
    tmp_swap,               \* engine single slot: Option<Swap>
    pc,                     \* "idle" | "submsg" | "reply" | "transfer"
    submsg,                 \* Option<SubMsg> dispatched by the running handler
    reply_msg,              \* Option<Reply> delivered to the reply entry point
    transfer_msg,           \* Option<TransferFrom> requested by the increase reply
    tx,                     \* the transaction in flight (with its rollback snapshot)
    result,                 \* outcome of the last finished transaction / call
    last,                   \* last committed transaction
    prev,                   \* committed transaction before last
    last_swap,              \* last call executed by the vamm
    ntx                     \* number of entry-point invocations so far

vars == <<decimals, quote_asset_reserve, base_asset_reserve, positions, tmp_swap,
          pc, submsg, reply_msg, transfer_msg, tx, result, last, prev, last_swap, ntx>>

----------------------------------------------------------------------------
\* Bounds of the model

MaxReserve == 8         \* the pricing harness starts from reserves 1..MaxReserve
MaxAmount == 1          \* quote_asset_amount posted by a trader: 1..MaxAmount
MaxSwapAmount == 4      \* amounts of direct vamm calls: 0..MaxSwapAmount
MaxTx == 3              \* transactions per behaviour
MaxCalls == 2           \* direct calls per behaviour of a harness
MaxInterleavedTx == 2   \* transactions per behaviour of the interleaving harness

Traders == {"t1", "t2"}
Sides == {"BUY", "SELL"}
Directions == {"AddToAmm", "RemoveFromAmm"}

RECURSIVE Pow10(_)
Pow10(k) == IF k = 0 THEN 1 ELSE 10 * Pow10(k - 1)

\* Config.decimals = 10^msg.decimals, for msg.decimals 0 and 1
DecimalsSet == {Pow10(0), Pow10(1)}

None == <<>>
Some(x) == <<x>>
Err == <<>>
Ok(v) == <<v>>
IsOk(r) == r # <<>>

----------------------------------------------------------------------------
\* Program constants

SWAP_INCREASE_REPLY_ID == 1
SWAP_DECREASE_REPLY_ID == 2
SWAP_REVERSE_REPLY_ID == 3
CLOSE_POSITION_REPLY_ID == 4
PRECISION == 1000000000

----------------------------------------------------------------------------
\* margined_vamm: decimal arithmetic and pricing

\* (a * 10^9) - b * ((a * 10^9) / b), i.e. (a * 10^9) mod b; the product is
\* reduced modulo b factor by factor so that it stays within machine integers.
modulo(a, b) == ((a % b) * (PRECISION % b)) % b

\* the error get_input_price_with_reserves returns through `?`: the checked_sub
\* of the amount or of the rounding unit (overflow), or the checked_div by the
\* quote reserve after the trade (divide_by_zero)
get_input_price_error(q, b, dec, direction, quote_asset_amount) ==
    LET invariant_k == (q * b) \div dec
        quote_asset_after == IF direction = "AddToAmm"
                             THEN q + quote_asset_amount
                             ELSE q - quote_asset_amount
    IN  IF quote_asset_after < 0 THEN "overflow"
        ELSE IF quote_asset_after = 0 THEN "divide_by_zero"
        ELSE IF /\ modulo(invariant_k, quote_asset_after) # 0
                /\ direction = "AddToAmm"
                /\ (invariant_k * dec) \div quote_asset_after = b
        THEN "overflow"
        ELSE "none"

\* get_input_price_with_reserves taking the quote reserve after the trade as an
\* absolute difference, as it does for the base amount
get_input_price_absolute(q, b, dec, direction, quote_asset_amount) ==
    LET invariant_k == (q * b) \div dec
        quote_asset_after == IF direction = "AddToAmm"
                             THEN q + quote_asset_amount
                             ELSE IF q > quote_asset_amount
                                  THEN q - quote_asset_amount
                                  ELSE quote_asset_amount - q
    IN  IF quote_asset_after = 0 THEN Err
        ELSE
          LET base_asset_after == (invariant_k * dec) \div quote_asset_after
              base_asset_bought == IF base_asset_after > b
                                   THEN base_asset_after - b
                                   ELSE b - base_asset_after
              remainder == modulo(invariant_k, quote_asset_after)
          IN  IF remainder # 0
              THEN IF direction = "AddToAmm"
                   THEN IF base_asset_bought = 0 THEN Err
                        ELSE Ok(base_asset_bought - 1)
                   ELSE Ok(base_asset_bought + 1)
              ELSE Ok(base_asset_bought)

get_input_price_with_reserves(q, b, dec, direction, quote_asset_amount) ==
    LET invariant_k == (q * b) \div dec
        quote_asset_after == IF direction = "AddToAmm"
                             THEN q + quote_asset_amount
                             ELSE q - quote_asset_amount
    IN  IF quote_asset_after < 0 THEN Err          \* checked_sub underflow
        ELSE IF quote_asset_after = 0 THEN Err     \* checked_div by zero
        ELSE
          LET base_asset_after == (invariant_k * dec) \div quote_asset_after
              base_asset_bought == IF base_asset_after > b
                                   THEN base_asset_after - b
                                   ELSE b - base_asset_after
              remainder == modulo(invariant_k, quote_asset_after)
          IN  IF remainder # 0
              THEN IF direction = "AddToAmm"
                   THEN IF base_asset_bought = 0 THEN Err
                        ELSE Ok(base_asset_bought - 1)
                   ELSE Ok(base_asset_bought + 1)
              ELSE Ok(base_asset_bought)

get_output_price_with_reserves(q, b, dec, direction, base_asset_amount) ==
    LET invariant_k == (q * b) \div dec
        base_asset_after == IF direction = "AddToAmm"
                            THEN b + base_asset_amount
                            ELSE b - base_asset_amount
    IN  IF base_asset_after < 0 THEN Err
        ELSE IF base_asset_after = 0 THEN Err
        ELSE
          LET quote_asset_after == (invariant_k * dec) \div base_asset_after
              quote_asset_sold == IF quote_asset_after > q
                                  THEN quote_asset_after - q
                                  ELSE q - quote_asset_after
              remainder == modulo(invariant_k, base_asset_after)
          IN  IF remainder # 0
              THEN IF direction = "AddToAmm"
                   THEN IF quote_asset_sold = 0 THEN Err
                        ELSE Ok(quote_asset_sold - 1)
                   ELSE Ok(quote_asset_sold + 1)
              ELSE Ok(quote_asset_sold)

\* Result of update_reserve: Some([q, b]) or None on underflow
update_reserve(q, b, direction, quote_asset_amount, base_asset_amount) ==
    IF direction = "AddToAmm"
    THEN IF base_asset_amount > b THEN None
         ELSE Some([q |-> q + quote_asset_amount, b |-> b - base_asset_amount])
    ELSE IF quote_asset_amount > q THEN None
         ELSE Some([q |-> q - quote_asset_amount, b |-> b + base_asset_amount])

SwapFailed(q, b) == [ok |-> FALSE, q |-> q, b |-> b, input |-> 0, output |-> 0]

\* vamm handle::swap_input: the reserves after the call and the emitted attributes
swap_input(q, b, dec, direction, quote_asset_amount) ==
    LET price == get_input_price_with_reserves(q, b, dec, direction, quote_asset_amount)
    IN  IF ~IsOk(price) THEN SwapFailed(q, b)
        ELSE LET upd == update_reserve(q, b, direction, quote_asset_amount, price[1])
             IN  IF upd = None THEN SwapFailed(q, b)
                 ELSE [ok |-> TRUE, q |-> upd[1].q, b |-> upd[1].b,
                       input |-> quote_asset_amount, output |-> price[1]]

\* swap_output updating the reserves in the nominal direction
swap_output_nominal(q, b, dec, direction, base_asset_amount) ==
    LET price == get_output_price_with_reserves(q, b, dec, direction, base_asset_amount)
    IN  IF ~IsOk(price) THEN SwapFailed(q, b)
        ELSE LET upd == update_reserve(q, b, direction, price[1], base_asset_amount)
             IN  IF upd = None THEN SwapFailed(q, b)
                 ELSE [ok |-> TRUE, q |-> upd[1].q, b |-> upd[1].b,
                       input |-> base_asset_amount, output |-> price[1]]

\* vamm handle::swap_output: the reserve update uses the flipped direction
swap_output(q, b, dec, direction, base_asset_amount) ==
    LET price == get_output_price_with_reserves(q, b, dec, direction, base_asset_amount)
        update_direction == IF direction = "AddToAmm" THEN "RemoveFromAmm" ELSE "AddToAmm"
    IN  IF ~IsOk(price) THEN SwapFailed(q, b)
        ELSE LET upd == update_reserve(q, b, update_direction, price[1], base_asset_amount)
             IN  IF upd = None THEN SwapFailed(q, b)
                 ELSE [ok |-> TRUE, q |-> upd[1].q, b |-> upd[1].b,
                       input |-> base_asset_amount, output |-> price[1]]

\* The curve invariant K = quote * base / decimals
InvariantK(q, b, dec) == (q * b) \div dec

----------------------------------------------------------------------------
\* margined_engine: helpers

\* utils::side_to_direction (BUY -> AddToAmm, SELL -> RemoveFromAmm)
side_to_direction(side) == IF side = "BUY" THEN "AddToAmm" ELSE "RemoveFromAmm"

\* utils::direction_to_side, the inverse mapping
direction_to_side(direction) == IF direction = "AddToAmm" THEN "BUY" ELSE "SELL"

\* utils::switch_direction
switch_direction(direction) ==
    IF direction = "AddToAmm" THEN "RemoveFromAmm" ELSE "AddToAmm"

\* Uint128::to_string: the decimal digits of n, most significant first
RECURSIVE to_string(_)
to_string(n) == IF n < 10 THEN <<n>> ELSE Append(to_string(n \div 10), n % 10)

\* Uint128::from_str: the number written by a sequence of decimal digits
RECURSIVE from_str(_)
from_str(s) ==
    IF Len(s) = 0 THEN 0
    ELSE 10 * from_str(SubSeq(s, 1, Len(s) - 1)) + s[Len(s)]

\* state::store_tmp_swap / read_tmp_swap / remove_tmp_swap on the single slot
store_tmp_swap(swap) == Some(swap)
read_tmp_swap(slot) == slot
remove_tmp_swap == None

\* state::read_position on the (vamm, trader) bucket
read_position(store, trader) == store[trader]

\* state::store_position on the (vamm, trader) bucket
store_position(store, trader, position) == [store EXCEPT ![trader] = Some(position)]

\* get_position whose new position ignores the requested side
get_position_fixed_direction(store, trader, side) ==
    LET current_position == read_position(store, trader)
    IN  IF current_position = None
        THEN [direction |-> "AddToAmm", size |-> 0, margin |-> 0, notional |-> 0]
        ELSE current_position[1]

get_position(store, trader, side) ==
    LET current_position == read_position(store, trader)
    IN  IF current_position = None
        THEN [direction |-> side_to_direction(side),
              size |-> 0, margin |-> 0, notional |-> 0]
        ELSE current_position[1]

\* engine handle::swap_input: the SubMsg carrying ExecuteMsg::SwapInput
swap_input_msg(side, open_notional, id) ==
    [kind |-> "SwapInput", direction |-> side_to_direction(side),
     amount |-> open_notional, id |-> id]

\* engine handle::swap_output: the SubMsg carrying ExecuteMsg::SwapOutput
swap_output_msg(side, open_notional, id) ==
    [kind |-> "SwapOutput", direction |-> side_to_direction(side),
     amount |-> open_notional, id |-> id]

internal_increase_position(side, open_notional) ==
    swap_input_msg(side, open_notional, SWAP_INCREASE_REPLY_ID)

execute_transfer_from(sender, receiver, amount) ==
    [owner |-> sender, recipient |-> receiver, amount |-> amount]

----------------------------------------------------------------------------
\* margined_engine: request handlers

calc_open_notional(quote_asset_amount, leverage, dec) ==
    (quote_asset_amount * leverage) \div dec

is_increase(position, side) ==
    ~( ~(position.direction = "AddToAmm" /\ side = "BUY")
       /\ ~(position.direction = "RemoveFromAmm" /\ side = "SELL") )

\* open_position taking the increase route whatever the stored direction
open_position_msg_increase(position, side, open_notional) ==
    internal_increase_position(side, open_notional)

\* open_position with the boundary notional == open_notional routed to decrease
open_position_msg_ge(position, side, open_notional) ==
    IF is_increase(position, side)
    THEN internal_increase_position(side, open_notional)
    ELSE IF position.notional >= open_notional
         THEN swap_input_msg(side, open_notional, SWAP_DECREASE_REPLY_ID)
         ELSE swap_output_msg(direction_to_side(position.direction),
                              position.size, SWAP_REVERSE_REPLY_ID)

\* the sub-message chosen by open_position for the loaded position
open_position_msg(position, side, open_notional) ==
    IF is_increase(position, side)
    THEN internal_increase_position(side, open_notional)
    ELSE IF position.notional > open_notional
         THEN swap_input_msg(side, open_notional, SWAP_DECREASE_REPLY_ID)
         ELSE swap_output_msg(direction_to_side(position.direction),
                              position.size, SWAP_REVERSE_REPLY_ID)

\* open_position: the response's sub-message and the slot it writes
open_position(store, trader, side, quote_asset_amount, leverage, dec) ==
    LET open_notional == calc_open_notional(quote_asset_amount, leverage, dec)
        position == get_position(store, trader, side)
    IN  [msg |-> open_position_msg(position, side, open_notional),
         tmp_swap |-> store_tmp_swap([trader |-> trader, side |-> side,
                                       quote_asset_amount |-> quote_asset_amount,
                                       leverage |-> leverage,
                                       open_notional |-> open_notional])]

\* close_position swapping in the position's own direction
close_position_same_direction(store, trader, id) ==
    LET position == read_position(store, trader)
    IN  IF position = None THEN None
        ELSE Some([kind |-> "SwapOutput",
                   direction |-> position[1].direction,
                   amount |-> position[1].size, id |-> id])

\* close_position loading the position as open_position does (absent -> zero)
close_position_default(store, trader, id) ==
    LET position == get_position(store, trader, "BUY")
    IN  Some([kind |-> "SwapOutput",
              direction |-> switch_direction(position.direction),
              amount |-> position.size, id |-> id])

\* close_position: Some(sub-message), or None when read_position(..).unwrap() panics
close_position(store, trader, id) ==
    LET position == read_position(store, trader)
    IN  IF position = None THEN None
        ELSE Some([kind |-> "SwapOutput",
                   direction |-> switch_direction(position[1].direction),
                   amount |-> position[1].size, id |-> id])

----------------------------------------------------------------------------
\* margined_engine: resumption handlers.  Each returns the outcome and the
\* storage it leaves: [ok, positions, tmp_swap, transfer]

HandlerErr(store, slot) ==
    [ok |-> FALSE, positions |-> store, tmp_swap |-> slot, transfer |-> None]

\* increase_position_reply overwriting the margin instead of adding to it
increase_position_reply_overwrite(store, slot, input, output) ==
    LET tmp == read_tmp_swap(slot)
    IN  IF tmp = None THEN HandlerErr(store, slot)
        ELSE LET swap == tmp[1]
                 position == get_position(store, swap.trader, swap.side)
                 updated == [direction |-> side_to_direction(swap.side),
                             size |-> position.size + output,
                             margin |-> swap.quote_asset_amount,
                             notional |-> position.notional + swap.open_notional]
             IN  [ok |-> TRUE,
                  positions |-> store_position(store, swap.trader, updated),
                  tmp_swap |-> slot,
                  transfer |-> Some(execute_transfer_from(swap.trader, "engine",
                                                          updated.margin))]

increase_position_reply(store, slot, input, output) ==
    LET tmp == read_tmp_swap(slot)
    IN  IF tmp = None THEN HandlerErr(store, slot)
        ELSE LET swap == tmp[1]
                 position == get_position(store, swap.trader, swap.side)
                 updated == [direction |-> side_to_direction(swap.side),
                             size |-> position.size + output,
                             margin |-> position.margin + swap.quote_asset_amount,
                             notional |-> position.notional + swap.open_notional]
             IN  [ok |-> TRUE,
                  positions |-> store_position(store, swap.trader, updated),
                  tmp_swap |-> slot,
                  transfer |-> Some(execute_transfer_from(swap.trader, "engine",
                                                          updated.margin))]

\* decrease_position storing the notional lowered by open_notional
decrease_position_stored(store, slot, input, output) ==
    LET tmp == read_tmp_swap(slot)
    IN  IF tmp = None THEN HandlerErr(store, slot)
        ELSE LET swap == tmp[1]
                 position == get_position(store, swap.trader, swap.side)
                 updated == [position EXCEPT
                               !.notional = IF position.notional > swap.open_notional
                                            THEN position.notional - swap.open_notional
                                            ELSE 0]
             IN  [ok |-> TRUE,
                  positions |-> store_position(store, swap.trader, updated),
                  tmp_swap |-> remove_tmp_swap, transfer |-> None]

decrease_position(store, slot, input, output) ==
    LET tmp == read_tmp_swap(slot)
    IN  IF tmp = None THEN HandlerErr(store, slot)
        ELSE [ok |-> TRUE, positions |-> store,
              tmp_swap |-> remove_tmp_swap, transfer |-> None]

\* reverse_position without the check of the slot
reverse_position_unchecked(store, slot, input, output) ==
    [ok |-> TRUE, positions |-> store, tmp_swap |-> slot, transfer |-> None]

reverse_position(store, slot, input, output) ==
    LET tmp == read_tmp_swap(slot)
    IN  IF tmp = None THEN HandlerErr(store, slot)
        ELSE [ok |-> TRUE, positions |-> store, tmp_swap |-> slot, transfer |-> None]

finalize_close_position(store, slot, input, output) ==
    LET swap == read_tmp_swap(slot)
    IN  IF swap = None THEN HandlerErr(store, slot)
        ELSE [ok |-> TRUE, positions |-> store,
              tmp_swap |-> remove_tmp_swap, transfer |-> None]

\* contract::parse_swap: the "input" and "output" attributes parsed back
parse_swap(response) ==
    [input |-> from_str(response.input), output |-> from_str(response.output)]

\* reply dispatching on the id without matching on the sub-message's result
reply_unmatched(store, slot, msg) ==
    LET p == parse_swap(msg)
    IN  IF msg.id = SWAP_INCREASE_REPLY_ID
        THEN increase_position_reply(store, slot, p.input, p.output)
        ELSE IF msg.id = SWAP_DECREASE_REPLY_ID
        THEN decrease_position(store, slot, p.input, p.output)
        ELSE IF msg.id = SWAP_REVERSE_REPLY_ID
        THEN reverse_position(store, slot, p.input, p.output)
        ELSE IF msg.id = CLOSE_POSITION_REPLY_ID
        THEN finalize_close_position(store, slot, p.input, p.output)
        ELSE HandlerErr(store, slot)

\* contract::reply, msg = [ok, id, input, output] with string-encoded amounts
reply(store, slot, msg) ==
    IF ~msg.ok THEN HandlerErr(store, slot)
    ELSE LET p == parse_swap(msg)
         IN  IF msg.id = SWAP_INCREASE_REPLY_ID
             THEN increase_position_reply(store, slot, p.input, p.output)
             ELSE IF msg.id = SWAP_DECREASE_REPLY_ID
             THEN decrease_position(store, slot, p.input, p.output)
             ELSE IF msg.id = SWAP_REVERSE_REPLY_ID
             THEN reverse_position(store, slot, p.input, p.output)
             ELSE IF msg.id = CLOSE_POSITION_REPLY_ID
             THEN finalize_close_position(store, slot, p.input, p.output)
             ELSE HandlerErr(store, slot)

----------------------------------------------------------------------------
\* State machine

\* leverage 1x and 2x, scaled by decimals
Leverages(dec) == {dec, 2 * dec}

NoTx == [op |-> "none", trader |-> "t1", side |-> "BUY", quote_asset_amount |-> 0,
         leverage |-> 0, open_notional |-> 0, id |-> 0, output |-> 0,
         slot_before |-> None, before |-> None, after |-> None,
         saved_positions |-> [t \in Traders |-> None], saved_tmp_swap |-> None,
         saved_quote |-> 0, saved_base |-> 0]

NoSwap == [kind |-> "none", direction |-> "AddToAmm", amount |-> 0, ok |-> FALSE,
           input |-> 0, output |-> 0, quote_before |-> 0, base_before |-> 0]

\* storage written by instantiate plus the bookkeeping of the model
InitCommon ==
    /\ pc = "idle"
    /\ submsg = None
    /\ reply_msg = None
    /\ transfer_msg = None
    /\ tx = NoTx
    /\ result = "none"
    /\ last = NoTx
    /\ prev = NoTx
    /\ last_swap = NoSwap
    /\ ntx = 0

\* reserves the market is instantiated with: a deep pool and a shallow one
InitReserves == {<<MaxReserve, 2 * MaxReserve>>, <<2, MaxReserve>>}

Init ==
    /\ decimals \in DecimalsSet
    /\ \E r \in InitReserves :
          /\ quote_asset_reserve = r[1]
          /\ base_asset_reserve = r[2]
    /\ positions = [t \in Traders |-> None]
    /\ tmp_swap = None
    /\ InitCommon

\* the transaction record taken when an entry point starts
BeginTx(op, trader, side, quote_asset_amount, leverage, open_notional, id) ==
    [op |-> op, trader |-> trader, side |-> side,
     quote_asset_amount |-> quote_asset_amount, leverage |-> leverage,
     open_notional |-> open_notional, id |-> id, output |-> 0,
     slot_before |-> tmp_swap, before |-> positions[trader], after |-> None,
     saved_positions |-> positions, saved_tmp_swap |-> tmp_swap,
     saved_quote |-> quote_asset_reserve, saved_base |-> base_asset_reserve]

\* the whole transaction is committed
Commit(store, txrec) ==
    /\ pc' = "idle"
    /\ result' = "ok"
    /\ prev' = last
    /\ last' = [txrec EXCEPT !.after = store[txrec.trader]]

\* the whole transaction is discarded: every contract's storage is restored
Rollback ==
    /\ pc' = "idle"
    /\ result' = "error"
    /\ positions' = tx.saved_positions
    /\ tmp_swap' = tx.saved_tmp_swap
    /\ quote_asset_reserve' = tx.saved_quote
    /\ base_asset_reserve' = tx.saved_base
    /\ UNCHANGED <<last, prev>>

\* ExecuteMsg::OpenPosition
OpenPosition(trader, side, quote_asset_amount, leverage) ==
    /\ pc = "idle"
    /\ ntx < MaxTx
    /\ LET r == open_position(positions, trader, side, quote_asset_amount,
                              leverage, decimals)
       IN  /\ tmp_swap' = r.tmp_swap
           /\ submsg' = Some(r.msg)
           /\ tx' = BeginTx("open", trader, side, quote_asset_amount, leverage,
                            r.tmp_swap[1].open_notional, r.msg.id)
    /\ pc' = "submsg"
    /\ result' = "pending"
    /\ ntx' = ntx + 1
    /\ reply_msg' = None
    /\ transfer_msg' = None
    /\ UNCHANGED <<decimals, quote_asset_reserve, base_asset_reserve, positions,
                   last, prev, last_swap>>

\* ExecuteMsg::ClosePosition
ClosePosition(trader) ==
    /\ pc = "idle"
    /\ ntx < MaxTx
    /\ LET m == close_position(positions, trader, CLOSE_POSITION_REPLY_ID)
       IN  /\ submsg' = m
           /\ tx' = BeginTx("close", trader, "BUY", 0, 0, 0, CLOSE_POSITION_REPLY_ID)
           /\ IF m = None
              THEN pc' = "idle" /\ result' = "error"
              ELSE pc' = "submsg" /\ result' = "pending"
    /\ ntx' = ntx + 1
    /\ reply_msg' = None
    /\ transfer_msg' = None
    /\ UNCHANGED <<decimals, quote_asset_reserve, base_asset_reserve, positions,
                   tmp_swap, last, prev, last_swap>>

\* the vamm executes the dispatched sub-message
VammExecute ==
    /\ pc = "submsg"
    /\ LET m == submsg[1]
           r == IF m.kind = "SwapInput"
                THEN swap_input(quote_asset_reserve, base_asset_reserve, decimals,
                                m.direction, m.amount)
                ELSE swap_output(quote_asset_reserve, base_asset_reserve, decimals,
                                 m.direction, m.amount)
       IN  /\ quote_asset_reserve' = r.q
           /\ base_asset_reserve' = r.b
           /\ reply_msg' = Some([ok |-> r.ok, id |-> m.id,
                                 input |-> to_string(r.input),
                                 output |-> to_string(r.output)])
           /\ last_swap' = [kind |-> m.kind, direction |-> m.direction,
                            amount |-> m.amount, ok |-> r.ok,
                            input |-> r.input, output |-> r.output,
                            quote_before |-> quote_asset_reserve,
                            base_before |-> base_asset_reserve]
    /\ pc' = "reply"
    /\ submsg' = Tail(submsg)
    /\ UNCHANGED <<decimals, positions, tmp_swap, transfer_msg, tx, result,
                   last, prev, ntx>>

\* the reply entry point runs on the sub-message's result
Reply ==
    /\ pc = "reply"
    /\ LET r == reply(positions, tmp_swap, reply_msg[1])
       IN  IF r.ok
           THEN /\ positions' = r.positions
                /\ tmp_swap' = r.tmp_swap
                /\ transfer_msg' = r.transfer
                /\ tx' = [tx EXCEPT !.output = from_str(reply_msg[1].output)]
                /\ UNCHANGED <<quote_asset_reserve, base_asset_reserve>>
                /\ IF r.transfer = None
                   THEN Commit(r.positions,
                               [tx EXCEPT !.output = from_str(reply_msg[1].output)])
                   ELSE pc' = "transfer" /\ UNCHANGED <<result, last, prev>>
           ELSE /\ Rollback
                /\ UNCHANGED <<tx, transfer_msg>>
    /\ reply_msg' = None
    /\ UNCHANGED <<decimals, submsg, last_swap, ntx>>

\* the collateral token executes the TransferFrom sub-message (ReplyOn::Never)
TransferExecute(ok) ==
    /\ pc = "transfer"
    /\ IF ok
       THEN /\ Commit(positions, tx)
            /\ UNCHANGED <<positions, tmp_swap, quote_asset_reserve,
                           base_asset_reserve>>
       ELSE Rollback
    /\ UNCHANGED <<decimals, submsg, reply_msg, transfer_msg, tx, last_swap, ntx>>

Next ==
    \/ \E t \in Traders, s \in Sides, a \in 1..MaxAmount, l \in Leverages(decimals) :
          OpenPosition(t, s, a, l)
    \/ \E t \in Traders : ClosePosition(t)
    \/ VammExecute
    \/ Reply
    \/ \E ok \in BOOLEAN : TransferExecute(ok)

Spec == Init /\ [][Next]_vars

----------------------------------------------------------------------------
\* Interleaving harness: the host lets a second trader's open_position run
\* between a request and its resumption, which the engine relies on the host
\* never to do.  The second request overwrites the slot and its sub-message
\* queues behind the first; the run ends when the first transaction has
\* finished with that sub-message still outstanding.

InterleavedOpenPosition(trader, side, quote_asset_amount, leverage) ==
    /\ pc \in {"submsg", "reply"}
    /\ tx.op = "open"
    /\ trader # tx.trader
    /\ tmp_swap # None
    /\ tmp_swap[1].trader = tx.trader
    /\ LET r == open_position(positions, trader, side, quote_asset_amount,
                              leverage, decimals)
       IN  /\ tmp_swap' = r.tmp_swap
           /\ submsg' = Append(submsg, r.msg)
    /\ UNCHANGED <<decimals, quote_asset_reserve, base_asset_reserve, positions,
                   pc, reply_msg, transfer_msg, tx, result, last, prev,
                   last_swap, ntx>>

NextInterleaved ==
    \/ /\ submsg = None
       /\ ntx < MaxInterleavedTx
       /\ \E t \in Traders, s \in Sides, a \in 1..MaxAmount,
             l \in Leverages(decimals) : OpenPosition(t, s, a, l)
    \/ /\ submsg = None
       /\ ntx < MaxInterleavedTx
       /\ \E t \in Traders : ClosePosition(t)
    \/ \E t \in Traders, s \in Sides, a \in 1..MaxAmount,
          l \in Leverages(decimals) : InterleavedOpenPosition(t, s, a, l)
    \/ VammExecute
    \/ Reply
    \/ \E ok \in BOOLEAN : TransferExecute(ok)

SpecInterleaved == Init /\ [][NextInterleaved]_vars

----------------------------------------------------------------------------
\* Pricing harness: the vamm's SwapInput / SwapOutput entry points called
\* directly on reserves drawn from 1..MaxReserve

InitAmm ==
    /\ decimals \in DecimalsSet
    /\ quote_asset_reserve \in 1..MaxReserve
    /\ base_asset_reserve \in 1..MaxReserve
    /\ positions = [t \in Traders |-> None]
    /\ tmp_swap = None
    /\ InitCommon

AmmCall(kind, direction, amount, r) ==
    /\ pc = "idle"
    /\ ntx < MaxCalls
    /\ quote_asset_reserve' = r.q
    /\ base_asset_reserve' = r.b
    /\ last_swap' = [kind |-> kind, direction |-> direction, amount |-> amount,
                     ok |-> r.ok, input |-> r.input, output |-> r.output,
                     quote_before |-> quote_asset_reserve,
                     base_before |-> base_asset_reserve]
    /\ result' = IF r.ok THEN "ok" ELSE "error"
    /\ ntx' = ntx + 1
    /\ UNCHANGED <<decimals, positions, tmp_swap, pc, submsg, reply_msg,
                   transfer_msg, tx, last, prev>>

\* vamm ExecuteMsg::SwapInput
SwapInput(direction, quote_asset_amount) ==
    AmmCall("SwapInput", direction, quote_asset_amount,
            swap_input(quote_asset_reserve, base_asset_reserve, decimals,
                       direction, quote_asset_amount))

\* vamm ExecuteMsg::SwapOutput
SwapOutput(direction, base_asset_amount) ==
    AmmCall("SwapOutput", direction, base_asset_amount,
            swap_output(quote_asset_reserve, base_asset_reserve, decimals,
                        direction, base_asset_amount))

NextAmm ==
    \/ \E d \in Directions, a \in 0..MaxSwapAmount : SwapInput(d, a)
    \/ \E d \in Directions, a \in 0..MaxSwapAmount : SwapOutput(d, a)

SpecAmm == InitAmm /\ [][NextAmm]_vars

----------------------------------------------------------------------------
\* Resumption harness: the engine's reply entry point called directly on a
\* storage drawn from small sets

StoredPositions ==
    {None} \cup {Some([direction |-> d, size |-> 1, margin |-> 1, notional |-> 1]) :
                    d \in Directions}

StoredSwaps(dec) ==
    {None} \cup {Some([trader |-> t, side |-> s, quote_asset_amount |-> 1,
                       leverage |-> dec, open_notional |-> 1]) :
                    t \in Traders, s \in Sides}

InitReply ==
    /\ decimals \in DecimalsSet
    /\ quote_asset_reserve = MaxReserve
    /\ base_asset_reserve = MaxReserve
    /\ positions \in [Traders -> StoredPositions]
    /\ tmp_swap \in StoredSwaps(decimals)
    /\ InitCommon

\* reply(deps, env, Reply { id, result })
ReplyCall(id, ok, input, output) ==
    /\ pc = "idle"
    /\ ntx < MaxCalls
    /\ LET msg == [ok |-> ok, id |-> id, input |-> to_string(input),
                   output |-> to_string(output)]
           r == reply(positions, tmp_swap, msg)
       IN  /\ reply_msg' = Some(msg)
           /\ positions' = r.positions
           /\ tmp_swap' = r.tmp_swap
           /\ transfer_msg' = r.transfer
           /\ result' = IF r.ok THEN "ok" ELSE "error"
    /\ tx' = BeginTx("reply", "t1", "BUY", 0, 0, 0, id)
    /\ ntx' = ntx + 1
    /\ UNCHANGED <<decimals, quote_asset_reserve, base_asset_reserve, pc, submsg,
                   last, prev, last_swap>>

NextReply ==
    \E id \in 1..5, ok \in BOOLEAN, output \in 0..1 :
        ReplyCall(id, ok, 1, output)

SpecReply == InitReply /\ [][NextReply]_vars

----------------------------------------------------------------------------
\* Properties

Abs(x) == IF x < 0 THEN -x ELSE x

ReplyIds == {SWAP_INCREASE_REPLY_ID, SWAP_DECREASE_REPLY_ID,
             SWAP_REVERSE_REPLY_ID, CLOSE_POSITION_REPLY_ID}

\* the stored position an Option stands for, absent read as the zero position
PositionOrZero(opt, side) ==
    IF opt = None
    THEN [direction |-> side_to_direction(side), size |-> 0, margin |-> 0, notional |-> 0]
    ELSE opt[1]

\* C1: after a committed transaction that issued a pricing call and whose
\* resumption handler (increase, decrease, reverse or close) succeeded, the
\* PendingSwap slot is empty.
C1_SlotEmptyAfterCommit ==
    (pc = "idle" /\ result = "ok" /\ last.id \in ReplyIds) => tmp_swap = None

\* C2: open_position writes the PendingSwap slot only when the slot holds no
\* record that is still waiting to be consumed (read, then cleared), i.e. when
\* the slot is empty.
C2_UnconsumedNeverOverwritten ==
    (pc = "submsg" /\ tx.op = "open") => tx.slot_before = None

\* an open_position request has just been handled for a stored position of
\* the opposite direction
OpposingRequest ==
    /\ pc = "submsg"
    /\ tx.op = "open"
    /\ tx.before # None
    /\ tx.before[1].direction # side_to_direction(tx.side)

\* C3: for a request opposing the stored position, notional > open_notional
\* issues an input-priced swap of open_notional tagged decrease, and
\* notional <= open_notional issues a call tagged reverse.
C3_DecreaseReverseRouting ==
    OpposingRequest =>
        /\ submsg # None
        /\ IF tx.before[1].notional > tx.open_notional
           THEN /\ submsg[1].kind = "SwapInput"
                /\ submsg[1].amount = tx.open_notional
                /\ submsg[1].id = SWAP_DECREASE_REPLY_ID
           ELSE submsg[1].id = SWAP_REVERSE_REPLY_ID

\* the boundary notional == open_notional has been routed
C3_Witness ==
    /\ OpposingRequest
    /\ tx.before[1].notional = tx.open_notional
    /\ submsg[1].id = SWAP_REVERSE_REPLY_ID

\* a decrease-eligible request has been routed
C3_DecreaseReached ==
    /\ OpposingRequest
    /\ tx.before[1].notional > tx.open_notional
    /\ submsg[1].id = SWAP_DECREASE_REPLY_ID

\* the last two committed transactions are open_position by the same trader
\* with the same side
TwoSameSideOpens ==
    /\ prev.op = "open"
    /\ last.op = "open"
    /\ prev.trader = last.trader
    /\ prev.side = last.side

\* C4 as stated: after two successive successful same-side open_position
\* transactions of a trader the stored size, margin and notional equal the sums
\* of the two swap outputs, the two posted amounts and the two open notionals,
\* and the direction is the same after the second as after the first.
C4_SumOfTwo ==
    TwoSameSideOpens =>
        /\ last.after # None
        /\ last.after[1].size = prev.output + last.output
        /\ last.after[1].margin = prev.quote_asset_amount + last.quote_asset_amount
        /\ last.after[1].notional = prev.open_notional + last.open_notional
        /\ last.after[1].direction = prev.after[1].direction

\* C4 amended: two successive successful open_position transactions of a trader
\* that both take the increase route add the two swap outputs, the two posted
\* amounts and the two open notionals to the size, margin and notional the
\* position had before the first, and leave the direction as after the first.
C4_Accumulates ==
    (TwoSameSideOpens /\ prev.id = SWAP_INCREASE_REPLY_ID
                      /\ last.id = SWAP_INCREASE_REPLY_ID) =>
        LET p0 == PositionOrZero(prev.before, prev.side)
        IN  /\ last.after # None
            /\ last.after[1].size = p0.size + prev.output + last.output
            /\ last.after[1].margin =
                   p0.margin + prev.quote_asset_amount + last.quote_asset_amount
            /\ last.after[1].notional =
                   p0.notional + prev.open_notional + last.open_notional
            /\ last.after[1].direction = prev.after[1].direction

\* two increases on top of an already stored position, both with a real output
C4_Witness ==
    /\ TwoSameSideOpens
    /\ prev.id = SWAP_INCREASE_REPLY_ID
    /\ last.id = SWAP_INCREASE_REPLY_ID
    /\ prev.before # None
    /\ prev.output > 0
    /\ last.output > 0

\* C5: close_position for a trader with no stored position fails, issues no
\* pricing call and leaves the ledger, the slot and the reserves unchanged.
C5_CloseWithoutPositionFails ==
    (tx.op = "close" /\ tx.before = None) =>
        /\ pc = "idle"
        /\ result = "error"
        /\ submsg = None
        /\ positions = tx.saved_positions
        /\ tmp_swap = tx.saved_tmp_swap
        /\ quote_asset_reserve = tx.saved_quote
        /\ base_asset_reserve = tx.saved_base

\* a close was attempted without a position while another trader holds one
C5_Witness ==
    /\ tx.op = "close"
    /\ tx.before = None
    /\ result = "error"
    /\ \E t \in Traders : positions[t] # None

\* C6: price_for_input(direction, 0) is 0 and a SwapInput of 0 leaves both
\* reserves unchanged.
C6_ZeroInputIsNoOp ==
    (last_swap.kind = "SwapInput" /\ last_swap.amount = 0) =>
        /\ get_input_price_with_reserves(last_swap.quote_before, last_swap.base_before,
                                         decimals, last_swap.direction, 0) = Ok(0)
        /\ quote_asset_reserve = last_swap.quote_before
        /\ base_asset_reserve = last_swap.base_before

\* C7: K computed from the reserves after a successful SwapInput or SwapOutput
\* is at least K computed from the reserves before it.
C7_InvariantNonDecreasing ==
    (last_swap.kind # "none" /\ last_swap.ok /\ result = "ok") =>
        InvariantK(quote_asset_reserve, base_asset_reserve, decimals)
            >= InvariantK(last_swap.quote_before, last_swap.base_before, decimals)

\* C8: after a SwapInput of a that returned x, pricing the output trade that
\* returns x to the curve gives a quote amount within 1 of a.
C8_RoundTripWithinOne ==
    (last_swap.kind = "SwapInput" /\ last_swap.ok /\ result = "ok") =>
        LET back == get_output_price_with_reserves(
                        quote_asset_reserve, base_asset_reserve, decimals,
                        last_swap.direction, last_swap.output)
        IN  /\ IsOk(back)
            /\ Abs(back[1] - last_swap.amount) <= 1

\* C9: starting from positive reserves, neither reserve is ever zero.
C9_ReservesNeverZero ==
    quote_asset_reserve > 0 /\ base_asset_reserve > 0

\* C10: an increase, decrease or reverse resumption that finds the slot empty
\* fails and changes neither the ledger nor the slot.
C10_EmptySlotResumptionFails ==
    (tx.op = "reply" /\ tx.slot_before = None
        /\ tx.id \in {SWAP_INCREASE_REPLY_ID, SWAP_DECREASE_REPLY_ID,
                      SWAP_REVERSE_REPLY_ID}) =>
        /\ result = "error"
        /\ positions = tx.saved_positions
        /\ tmp_swap = None

\* the reverse resumption ran on a successful pricing result with an empty slot
C10_Witness ==
    /\ tx.op = "reply"
    /\ tx.slot_before = None
    /\ tx.id = SWAP_REVERSE_REPLY_ID
    /\ reply_msg # None
    /\ reply_msg[1].ok
    /\ result = "error"

\* the transaction in tx has finished and its pricing sub-invocation failed
SubCallFailed ==
    /\ pc = "idle"
    /\ tx.op \in {"open", "close"}
    /\ ~(tx.op = "close" /\ tx.before = None)
    /\ last_swap.kind # "none"
    /\ ~last_swap.ok

\* C11: when the pricing sub-invocation fails, reply returns an error for every
\* continuation id and the transaction aborts: ledger, slot and reserves equal
\* their values from before the transaction.
C11_FailedSubCallAborts ==
    SubCallFailed =>
        /\ \A id \in ReplyIds :
              ~reply(positions, tmp_swap,
                     [ok |-> FALSE, id |-> id, input |-> to_string(0),
                      output |-> to_string(0)]).ok
        /\ result = "error"
        /\ positions = tx.saved_positions
        /\ tmp_swap = tx.saved_tmp_swap
        /\ quote_asset_reserve = tx.saved_quote
        /\ base_asset_reserve = tx.saved_base

\* an open_position on a stored position was aborted by a failed pricing call
C11_Witness ==
    /\ SubCallFailed
    /\ tx.op = "open"
    /\ tx.before # None
    /\ result = "error"

\* C12: after a successful close_position transaction the stored position still
\* exists and its size, margin and notional are zero.
C12_CloseZeroesPosition ==
    (last.op = "close") =>
        /\ last.after # None
        /\ last.after[1].size = 0
        /\ last.after[1].margin = 0
        /\ last.after[1].notional = 0

\* C13: close_position on an existing position issues exactly one pricing call,
\* a SwapOutput of position.size in the direction opposite to the stored one,
\* tagged with the close continuation id.
C13_CloseIssuesOppositeSwapOutput ==
    (pc = "submsg" /\ tx.op = "close") =>
        /\ tx.before # None
        /\ submsg = Some([kind |-> "SwapOutput",
                          direction |-> IF tx.before[1].direction = "AddToAmm"
                                        THEN "RemoveFromAmm" ELSE "AddToAmm",
                          amount |-> tx.before[1].size,
                          id |-> CLOSE_POSITION_REPLY_ID])

\* a close request for a position with a real size has been handled
C13_Witness ==
    /\ pc = "submsg"
    /\ tx.op = "close"
    /\ tx.before # None
    /\ tx.before[1].size > 0

\* C14: with no stored position open_position takes the increase route for
\* either side, and the committed position has the direction of the side and
\* exactly the swap output, the posted amount and open_notional.
C14_FreshPositionFromSide ==
    /\ (pc = "submsg" /\ tx.op = "open" /\ tx.before = None) =>
            submsg = Some([kind |-> "SwapInput",
                           direction |-> IF tx.side = "BUY" THEN "AddToAmm"
                                         ELSE "RemoveFromAmm",
                           amount |-> tx.open_notional,
                           id |-> SWAP_INCREASE_REPLY_ID])
    /\ (last.op = "open" /\ last.before = None) =>
            last.after = Some([direction |-> IF last.side = "BUY" THEN "AddToAmm"
                                             ELSE "RemoveFromAmm",
                               size |-> last.output,
                               margin |-> last.quote_asset_amount,
                               notional |-> last.open_notional])

\* a first SELL of a trader has been committed with a real output
C14_Witness ==
    /\ last.op = "open"
    /\ last.before = None
    /\ last.side = "SELL"
    /\ last.output > 0
    /\ last.output = last_swap.output

\* the pricing rule for an input trade as the curve defines it: the rounding
\* correction is applied iff (K * decimals) mod quote_after is not zero
price_for_input_reference(q, b, dec, direction, a) ==
    LET K == (q * b) \div dec
        quote_after == IF direction = "AddToAmm" THEN q + a ELSE q - a
    IN  IF quote_after <= 0 THEN Err
        ELSE LET base_after == (K * dec) \div quote_after
                 delta == Abs(base_after - b)
             IN  IF (K * dec) % quote_after # 0
                 THEN IF direction = "AddToAmm"
                      THEN IF delta = 0 THEN Err ELSE Ok(delta - 1)
                      ELSE Ok(delta + 1)
                 ELSE Ok(delta)

\* C15: the price of an input trade equals the reference computation, whose
\* one-unit correction depends on (K * decimals) mod quote_after, for every
\* configured decimals value.
C15_InputPriceMatchesReference ==
    (last_swap.kind = "SwapInput" /\ last_swap.amount > 0) =>
        get_input_price_with_reserves(last_swap.quote_before, last_swap.base_before,
                                      decimals, last_swap.direction, last_swap.amount)
          = price_for_input_reference(last_swap.quote_before, last_swap.base_before,
                                      decimals, last_swap.direction, last_swap.amount)

\* C16: a successful SwapOutput of x with nominal AddToAmm adds x to the base
\* reserve and takes the computed quote amount from the quote reserve, with
\* nominal RemoveFromAmm it adds the computed amount to the quote reserve and
\* takes x from the base reserve; it emits input = x and output = that amount.
C16_SwapOutputFlipsUpdate ==
    (last_swap.kind = "SwapOutput" /\ last_swap.ok) =>
        LET x == last_swap.amount
            computed == get_output_price_with_reserves(
                            last_swap.quote_before, last_swap.base_before,
                            decimals, last_swap.direction, x)
        IN  /\ IsOk(computed)
            /\ IF last_swap.direction = "AddToAmm"
               THEN /\ base_asset_reserve = last_swap.base_before + x
                    /\ quote_asset_reserve = last_swap.quote_before - computed[1]
               ELSE /\ quote_asset_reserve = last_swap.quote_before + computed[1]
                    /\ base_asset_reserve = last_swap.base_before - x
            /\ last_swap.input = x
            /\ last_swap.output = computed[1]

\* a SwapOutput with real amounts on both sides has succeeded
C16_Witness ==
    /\ last_swap.kind = "SwapOutput"
    /\ last_swap.ok
    /\ last_swap.amount > 0
    /\ last_swap.output > 0
    /\ last_swap.direction = "AddToAmm"
    /\ base_asset_reserve > last_swap.base_before

\* C17: when open_position takes the decrease route and the transaction
\* commits, the stored notional is lower than before by exactly open_notional.
C17_DecreaseLowersNotional ==
    (last.op = "open" /\ last.id = SWAP_DECREASE_REPLY_ID) =>
        /\ last.before # None
        /\ last.after # None
        /\ last.after[1].notional = last.before[1].notional - last.open_notional

\* C18: a ClosePosition on an existing position whose pricing call succeeds
\* commits whatever the PendingSwap slot holds, and leaves the slot as it was.
C18_CloseIndependentOfSlot ==
    (pc = "idle" /\ tx.op = "close" /\ tx.before # None
       /\ last_swap.kind = "SwapOutput" /\ last_swap.ok) =>
        /\ result = "ok"
        /\ tmp_swap = tx.saved_tmp_swap

\* C19: the transfer requested by an increase resumption moves exactly the
\* quote_asset_amount recorded in the PendingSwap, from the trader to the engine.
C19_TransferIsPostedMargin ==
    (pc = "transfer") =>
        /\ transfer_msg # None
        /\ tmp_swap # None
        /\ transfer_msg[1].amount = tmp_swap[1].quote_asset_amount

\* C20: SwapInput RemoveFromAmm of at least the quote reserve fails, by
\* underflow when greater and by division by zero when equal, and a failed
\* SwapInput or SwapOutput leaves both reserves unchanged.
C20_DrainingInputFails ==
    /\ (last_swap.kind = "SwapInput" /\ last_swap.direction = "RemoveFromAmm"
          /\ last_swap.amount >= last_swap.quote_before) =>
            /\ ~last_swap.ok
            /\ ~IsOk(get_input_price_with_reserves(
                         last_swap.quote_before, last_swap.base_before, decimals,
                         last_swap.direction, last_swap.amount))
            /\ get_input_price_error(last_swap.quote_before, last_swap.base_before,
                                     decimals, last_swap.direction, last_swap.amount)
                 = IF last_swap.amount > last_swap.quote_before
                   THEN "overflow" ELSE "divide_by_zero"
    /\ (last_swap.kind = "SwapInput") =>
            (get_input_price_error(last_swap.quote_before, last_swap.base_before,
                                   decimals, last_swap.direction, last_swap.amount)
               # "none")
            <=> ~IsOk(get_input_price_with_reserves(
                          last_swap.quote_before, last_swap.base_before, decimals,
                          last_swap.direction, last_swap.amount))
    /\ (last_swap.kind # "none" /\ ~last_swap.ok) =>
            /\ result = "error"
            /\ quote_asset_reserve = last_swap.quote_before
            /\ base_asset_reserve = last_swap.base_before

\* a SwapInput taking the whole quote reserve out has failed
C20_Witness ==
    /\ last_swap.kind = "SwapInput"
    /\ last_swap.direction = "RemoveFromAmm"
    /\ last_swap.amount = last_swap.quote_before
    /\ last_swap.amount > 0
    /\ ~last_swap.ok

\* C21: the increase resumption is the only step that writes the position
\* ledger; the requests and the decrease, reverse and close resumptions leave
\* every stored position unchanged (an abort restores what the increase
\* resumption of the same transaction wrote).
C21_OnlyIncreaseWritesLedger ==
    [][ (positions' # positions) =>
          \/ /\ pc = "reply"
             /\ reply_msg # None
             /\ reply_msg[1].ok
             /\ reply_msg[1].id = SWAP_INCREASE_REPLY_ID
          \/ /\ pc = "transfer"
             /\ result' = "error"
             /\ positions' = tx.saved_positions ]_vars

\* a decrease on a stored position has committed with the ledger as it was
C21_Witness ==
    /\ pc = "idle"
    /\ result = "ok"
    /\ tx.op = "open"
    /\ tx.id = SWAP_DECREASE_REPLY_ID
    /\ positions[tx.trader] # None
    /\ positions = tx.saved_positions
    /\ base_asset_reserve # tx.saved_base

\* C22: across committed transactions a stored position's size, margin and
\* notional never decrease and its direction never changes.
C22_PositionsMonotone ==
    (pc = "idle" /\ result = "ok") =>
        \A t \in Traders :
            tx.saved_positions[t] # None =>
                /\ positions[t] # None
                /\ positions[t][1].size >= tx.saved_positions[t][1].size
                /\ positions[t][1].margin >= tx.saved_positions[t][1].margin
                /\ positions[t][1].notional >= tx.saved_positions[t][1].notional
                /\ positions[t][1].direction = tx.saved_positions[t][1].direction

\* an opposing open_position and a growing one both committed on a stored position
C22_Witness ==
    /\ pc = "idle"
    /\ result = "ok"
    /\ last.op = "open"
    /\ last.before # None
    /\ last.after[1].size > last.before[1].size
    /\ prev.op = "open"
    /\ prev.trader = last.trader
    /\ prev.id # SWAP_INCREASE_REPLY_ID

\* C23: for the same stored position the reverse route of open_position and
\* close_position request the same trade: a SwapOutput with the same direction
\* and the same base_asset_amount.
C23_ReverseRequestsCloseTrade ==
    (pc = "submsg" /\ tx.op = "open" /\ tx.id = SWAP_REVERSE_REPLY_ID) =>
        LET closing == close_position(positions, tx.trader, CLOSE_POSITION_REPLY_ID)
        IN  /\ closing # None
            /\ submsg # None
            /\ submsg[1].kind = "SwapOutput"
            /\ submsg[1].kind = closing[1].kind
            /\ submsg[1].amount = closing[1].amount
            /\ submsg[1].direction = closing[1].direction

\* signed sum of the stored sizes: AddToAmm positions minus RemoveFromAmm ones
RECURSIVE BaseExposure(_, _)
BaseExposure(store, traders) ==
    IF traders = {} THEN 0
    ELSE LET t == CHOOSE x \in traders : TRUE
             own == IF store[t] = None THEN 0
                    ELSE IF store[t][1].direction = "AddToAmm"
                         THEN store[t][1].size
                         ELSE 0 - store[t][1].size
         IN  own + BaseExposure(store, traders \ {t})

\* C25: between transactions the base taken out of the curve since
\* instantiation equals the signed sum of the stored sizes.
C25_LedgerMatchesCurve ==
    (pc = "idle") =>
        \E r \in InitReserves :
            r[2] - base_asset_reserve = BaseExposure(positions, Traders)

\* the ledger after the increase resumption has applied the record rec to the
\* ledger the transaction started from, with the swap output it was given
IncreaseApplied(rec) ==
    LET old == PositionOrZero(tx.saved_positions[rec.trader], rec.side)
    IN  [tx.saved_positions EXCEPT ![rec.trader] =
            Some([direction |-> IF rec.side = "BUY" THEN "AddToAmm"
                                ELSE "RemoveFromAmm",
                  size |-> old.size + tx.output,
                  margin |-> old.margin + rec.quote_asset_amount,
                  notional |-> old.notional + rec.open_notional])]

\* the record the open_position request of the transaction in tx wrote
OwnRecord ==
    [trader |-> tx.trader, side |-> tx.side,
     quote_asset_amount |-> tx.quote_asset_amount, leverage |-> tx.leverage,
     open_notional |-> tx.open_notional]

\* what the request of the transaction in tx wrote to the slot: open_position
\* stores its record, close_position stores nothing
RequestRecord == IF tx.op = "open" THEN Some(OwnRecord) ELSE None

\* a second trader's open_position has overwritten the slot of the
\* open_position transaction in tx
Interleaved ==
    tx.op = "open" /\ tmp_swap # None /\ tmp_swap[1].trader # tx.trader

\* C24: in a serialized transaction every resumption (increase, decrease,
\* reverse, close) finds in the slot the record its own request wrote, and the
\* increase resumption changes only the requesting trader's position, by that
\* request's amounts; when a second trader's request is interleaved before the
\* resumption, the resumption applies the second trader's record instead.
C24_ResumptionAppliesSlotRecord ==
    /\ (pc = "reply" /\ ~Interleaved) =>
            tmp_swap = RequestRecord
    /\ (pc \in {"transfer", "idle"} /\ tx.op = "open"
          /\ tx.id = SWAP_INCREASE_REPLY_ID /\ result \in {"pending", "ok"}) =>
            IF Interleaved
            THEN /\ positions = IncreaseApplied(tmp_swap[1])
                 /\ positions[tx.trader] = tx.saved_positions[tx.trader]
            ELSE /\ positions = IncreaseApplied(OwnRecord)
                 /\ \A t \in Traders \ {tx.trader} :
                        positions[t] = tx.saved_positions[t]

====
